---- MODULE Spec2Model ----
(***************************************************************************)
(* Model of the game state held by the App component of                    *)
(* tic_tac_toe_frontend/src/App.js: the board, the turn flag, the session  *)
(* scores, and the handlers that change them.  One action is one event     *)
(* handler run to completion, followed by the render and the passive       *)
(* effects that React commits before it handles the next event.            *)
(***************************************************************************)
EXTENDS Integers, FiniteSets, Sequences, TLC

VARIABLES
  board,       \* useState(Array(9).fill(null)): a JS array, see ArrayFill
  xIsNext,     \* useState(true)
  scores,      \* useState({ X: 0, O: 0 })
  theme,       \* useState('light')
  effectDeps,  \* the [winner] dependency the score effect last ran with
  op,          \* history: the handler that ran last, and whether it
               \*          returned early
  moveNo,      \* history: accepted moves since the board was last reset
  strayCalls,  \* history: calls of handleSquareClick outside 0..8 so far
  script,      \* a scripted caller: the clicks it still has to deliver, its
               \*   phase, and the scores when it started
  memo         \* a board handed to the winner computation on its own, and
               \*   what the computation returned

vars ==
  <<board, xIsNext, scores, theme, effectDeps, op, moveNo, strayCalls, script,
    memo>>

-----------------------------------------------------------------------------
(* Bounds of the model *)

\* Rounds are not played on once a score would pass MaxScore.
MaxScore == 1

\* Calls with an index outside 0..8 allowed in one behaviour of SpecAny.
MaxOutOfRange == 1

-----------------------------------------------------------------------------
(* JavaScript values *)

null == "null"
undefined == "undefined"
Marks == {"X", "O"}

\* JS truthiness of the values a cell or `winner` can hold.
Truthy(v) == v \in Marks

BoardSize == 9

\* An array is its length and its own properties: the integer keys that are
\* set (an index in 0..length-1 that is not set is a hole; a negative key is
\* a plain property, not an element).
ArrayFill(n, v) == [length |-> n, elems |-> [k \in 0..(n - 1) |-> v]]

\* arr[i]: undefined when the key is not set.
Get(arr, i) == IF i \in DOMAIN arr.elems THEN arr.elems[i] ELSE undefined

\* The keys of arr that are elements: the indices below its length.
IsElement(arr, k) == k >= 0 /\ k < arr.length

\* arr.slice(): copies the elements (holes stay holes), drops other properties.
Slice(arr) ==
  IF \A k \in DOMAIN arr.elems : IsElement(arr, k)
    THEN arr
    ELSE [length |-> arr.length,
          elems  |-> [k \in {j \in DOMAIN arr.elems : IsElement(arr, j)}
                        |-> arr.elems[k]]]

\* arr[i] = v: a key at or past the end grows the array; a negative key
\* only adds a property.
Put(arr, i, v) ==
  IF i \in DOMAIN arr.elems
    THEN [arr EXCEPT !.elems[i] = v]
    ELSE [length |-> IF i >= arr.length THEN i + 1 ELSE arr.length,
          elems  |-> [k \in (DOMAIN arr.elems) \cup {i}
                        |-> IF k = i THEN v ELSE arr.elems[k]]]

-----------------------------------------------------------------------------
(* Derived values of a render *)

\* Variant: the last line mistyped.
WIN_LINES_typo ==
  << <<0, 1, 2>>, <<3, 4, 5>>, <<6, 7, 8>>,
     <<0, 3, 6>>, <<1, 4, 7>>, <<2, 5, 8>>,
     <<0, 4, 8>>, <<2, 4, 8>> >>

WIN_LINES ==
  << <<0, 1, 2>>, <<3, 4, 5>>, <<6, 7, 8>>,
     <<0, 3, 6>>, <<1, 4, 7>>, <<2, 5, 8>>,
     <<0, 4, 8>>, <<2, 4, 6>> >>

\* Variant: the third cell is not compared.
lineMatches_twoCells(b, l) ==
  /\ Truthy(Get(b, l[1]))
  /\ Get(b, l[1]) = Get(b, l[2])

\* The test of the loop body for one line.
lineMatches(b, l) ==
  /\ Truthy(Get(b, l[1]))
  /\ Get(b, l[1]) = Get(b, l[2])
  /\ Get(b, l[1]) = Get(b, l[3])

\* The loop over WIN_LINES from its k-th line on: the first line that
\* matches returns, and the fall-through returns { winner: null, line: [] }.
RECURSIVE scanLines(_, _)
scanLines(b, k) ==
  IF k > Len(WIN_LINES)
    THEN [winner |-> null, line |-> <<>>]
    ELSE IF lineMatches(b, WIN_LINES[k])
      THEN [winner |-> Get(b, WIN_LINES[k][1]), line |-> WIN_LINES[k]]
      ELSE scanLines(b, k + 1)

\* useMemo(() => { for (...) ...; return { winner: null, line: [] } }, [board])
\* Variant: the loop does not stop at the first match, the last one stays.
computeWinner_lastMatch(b) ==
  LET hits == {k \in 1..Len(WIN_LINES) : lineMatches(b, WIN_LINES[k])}
  IN  IF hits = {}
        THEN [winner |-> null, line |-> <<>>]
        ELSE LET last == CHOOSE k \in hits : \A j \in hits : j <= k
             IN  [winner |-> Get(b, WIN_LINES[last][1]), line |-> WIN_LINES[last]]

computeWinner(b) == scanLines(b, 1)

\* board.every((cell) => cell !== null): every skips holes.
boardFull(b) ==
  \A k \in DOMAIN b.elems : IsElement(b, k) => b.elems[k] # null

\* Variant: a full board is a draw, whoever won.
drawOf_ignoresWinner(b) == boardFull(b)

drawOf(b) == ~Truthy(computeWinner(b).winner) /\ boardFull(b)

winner      == computeWinner(board).winner
line        == computeWinner(board).line
isBoardFull == boardFull(board)
isDraw      == drawOf(board)

\* The three-valued outcome the status line distinguishes.
outcomeOf(b) ==
  IF Truthy(computeWinner(b).winner) THEN "Won"
  ELSE IF drawOf(b) THEN "Draw"
  ELSE "InProgress"

outcome == outcomeOf(board)

\* Variant: the turn shown is the one of the player who just moved.
statusOf_staleTurn(b, x) ==
  IF Truthy(computeWinner(b).winner)
    THEN <<"Winner: ", computeWinner(b).winner>>
  ELSE IF drawOf(b) THEN <<"It's a draw">>
  ELSE <<"Turn: ", IF x THEN "O" ELSE "X">>

statusOf(b, x) ==
  IF Truthy(computeWinner(b).winner)
    THEN <<"Winner: ", computeWinner(b).winner>>
  ELSE IF drawOf(b) THEN <<"It's a draw">>
  ELSE <<"Turn: ", IF x THEN "X" ELSE "O">>

statusMessage == statusOf(board, xIsNext)

-----------------------------------------------------------------------------
(* Render and commit *)

\* useEffect(() => { if (winner) setScores(...) }, [winner]): the effect
\* runs when the dependency differs from the one of the last run.
\* (scoreEffect_everyRender is the variant without the dependency list.)
scoreEffect_everyRender(w, deps, s) ==
  IF Truthy(w) THEN [s EXCEPT ![w] = @ + 1] ELSE s

\* Variant: the other player's entry is incremented.
scoreEffect_otherKey(w, deps, s) ==
  IF w # deps /\ Truthy(w)
    THEN [s EXCEPT ![IF w = "X" THEN "O" ELSE "X"] = @ + 1]
    ELSE s

scoreEffect(w, deps, s) ==
  IF w # deps /\ Truthy(w) THEN [s EXCEPT ![w] = @ + 1] ELSE s

\* The render that follows a handler's state updates, with its effects.  The
\* setScores of the effect causes one more render, in which winner is the
\* same and the effect does not run again.  The effect is passive (it runs
\* after the commit), but React runs the pending passive effects before it
\* dispatches the next click, so it belongs to the step of the handler whose
\* render scheduled it.
\* Variant: the effect scheduled by a render is run only after the next
\* handler's updates, with the winner of the render that scheduled it.
Commit_effectLags(b, x, s, t) ==
  /\ board' = b
  /\ xIsNext' = x
  /\ theme' = t
  /\ scores' = scoreEffect(computeWinner(board).winner, effectDeps, s)
  /\ effectDeps' = computeWinner(board).winner

Commit(b, x, s, t) ==
  /\ board' = b
  /\ xIsNext' = x
  /\ theme' = t
  /\ scores' = scoreEffect(computeWinner(b).winner, effectDeps, s)
  /\ effectDeps' = computeWinner(b).winner

-----------------------------------------------------------------------------
(* Handlers *)

Call(name, ignored) == [name |-> name, ignored |-> ignored]

\* Variant: the guard misses `|| winner`.
handleSquareClick_noWinnerGuard(index) ==
  IF Truthy(Get(board, index))
    THEN /\ UNCHANGED <<board, xIsNext, scores, theme, effectDeps, moveNo>>
         /\ op' = Call("handleSquareClick", TRUE)
    ELSE LET nextBoard == Put(Slice(board), index, IF xIsNext THEN "X" ELSE "O")
         IN  /\ Commit(nextBoard, ~xIsNext, scores, theme)
             /\ moveNo' = moveNo + 1
             /\ op' = Call("handleSquareClick", FALSE)

\* Variant: the turn is flipped before the guard.
handleSquareClick_flipOnIgnore(index) ==
  IF Truthy(Get(board, index)) \/ Truthy(winner)
    THEN /\ Commit(board, ~xIsNext, scores, theme)
         /\ UNCHANGED moveNo
         /\ op' = Call("handleSquareClick", TRUE)
    ELSE LET nextBoard == Put(Slice(board), index, IF xIsNext THEN "X" ELSE "O")
         IN  /\ Commit(nextBoard, ~xIsNext, scores, theme)
             /\ moveNo' = moveNo + 1
             /\ op' = Call("handleSquareClick", FALSE)

\* Variant: the mark does not follow xIsNext.
handleSquareClick_alwaysX(index) ==
  IF Truthy(Get(board, index)) \/ Truthy(winner)
    THEN /\ UNCHANGED <<board, xIsNext, scores, theme, effectDeps, moveNo>>
         /\ op' = Call("handleSquareClick", TRUE)
    ELSE LET nextBoard == Put(Slice(board), index, "X")
         IN  /\ Commit(nextBoard, ~xIsNext, scores, theme)
             /\ moveNo' = moveNo + 1
             /\ op' = Call("handleSquareClick", FALSE)

\* Variant: the guard misses `board[index] ||`.
handleSquareClick_noOccupiedGuard(index) ==
  IF Truthy(winner)
    THEN /\ UNCHANGED <<board, xIsNext, scores, theme, effectDeps, moveNo>>
         /\ op' = Call("handleSquareClick", TRUE)
    ELSE LET nextBoard == Put(Slice(board), index, IF xIsNext THEN "X" ELSE "O")
         IN  /\ Commit(nextBoard, ~xIsNext, scores, theme)
             /\ moveNo' = moveNo + 1
             /\ op' = Call("handleSquareClick", FALSE)

\* Variant: setXIsNext is missing.
handleSquareClick_noFlip(index) ==
  IF Truthy(Get(board, index)) \/ Truthy(winner)
    THEN /\ UNCHANGED <<board, xIsNext, scores, theme, effectDeps, moveNo>>
         /\ op' = Call("handleSquareClick", TRUE)
    ELSE LET nextBoard == Put(Slice(board), index, IF xIsNext THEN "X" ELSE "O")
         IN  /\ Commit(nextBoard, xIsNext, scores, theme)
             /\ moveNo' = moveNo + 1
             /\ op' = Call("handleSquareClick", FALSE)

\* Variant: the next board is built from a fresh array, not from a copy of
\* the current one.
handleSquareClick_freshArray(index) ==
  IF Truthy(Get(board, index)) \/ Truthy(winner)
    THEN /\ UNCHANGED <<board, xIsNext, scores, theme, effectDeps, moveNo>>
         /\ op' = Call("handleSquareClick", TRUE)
    ELSE LET nextBoard == Put(ArrayFill(BoardSize, null), index,
                              IF xIsNext THEN "X" ELSE "O")
         IN  /\ Commit(nextBoard, ~xIsNext, scores, theme)
             /\ moveNo' = moveNo + 1
             /\ op' = Call("handleSquareClick", FALSE)

handleSquareClick(index) ==
  IF Truthy(Get(board, index)) \/ Truthy(winner)
    THEN /\ UNCHANGED <<board, xIsNext, scores, theme, effectDeps, moveNo>>
         /\ op' = Call("handleSquareClick", TRUE)
    ELSE LET nextBoard == Put(Slice(board), index, IF xIsNext THEN "X" ELSE "O")
         IN  /\ Commit(nextBoard, ~xIsNext, scores, theme)
             /\ moveNo' = moveNo + 1
             /\ op' = Call("handleSquareClick", FALSE)

\* Variant: the board reset also clears the scores.
resetBoard_clearsScores ==
  /\ Commit(ArrayFill(BoardSize, null), TRUE, [X |-> 0, O |-> 0], theme)
  /\ moveNo' = 0
  /\ op' = Call("resetBoard", FALSE)

\* Variant: setXIsNext(true) is missing.
resetBoard_keepsTurn ==
  /\ Commit(ArrayFill(BoardSize, null), xIsNext, scores, theme)
  /\ moveNo' = 0
  /\ op' = Call("resetBoard", FALSE)

resetBoard ==
  /\ Commit(ArrayFill(BoardSize, null), TRUE, scores, theme)
  /\ moveNo' = 0
  /\ op' = Call("resetBoard", FALSE)

\* Variant: the call of resetBoard() is missing.
resetAll_scoresOnly ==
  /\ Commit(board, xIsNext, [X |-> 0, O |-> 0], theme)
  /\ UNCHANGED moveNo
  /\ op' = Call("resetAll", FALSE)

resetAll ==
  /\ Commit(ArrayFill(BoardSize, null), TRUE, [X |-> 0, O |-> 0], theme)
  /\ moveNo' = 0
  /\ op' = Call("resetAll", FALSE)

\* Changes no game state, but renders the component again: winner, isDraw
\* and statusMessage are evaluated once more and the effects are offered
\* their dependencies.
toggleTheme ==
  /\ Commit(board, xIsNext, scores, IF theme = "light" THEN "dark" ELSE "light")
  /\ UNCHANGED moveNo
  /\ op' = Call("toggleTheme", FALSE)

-----------------------------------------------------------------------------
(* Specifications *)

\* Nothing handed to the winner computation on its own.
NoMemo ==
  [input |-> ArrayFill(BoardSize, null), done |-> FALSE,
   out |-> [winner |-> null, line |-> <<>>, outcome |-> "InProgress"]]

NoScript ==
  [todo |-> <<>>, phase |-> "idle", from |-> [X |-> 0, O |-> 0],
   cells |-> <<>>, mark |-> "X"]

Init ==
  /\ board = ArrayFill(BoardSize, null)
  /\ xIsNext = TRUE
  /\ scores = [X |-> 0, O |-> 0]
  /\ theme = "light"
  /\ effectDeps = null
  /\ op = Call("mount", FALSE)
  /\ moveNo = 0
  /\ strayCalls = 0
  /\ script = NoScript
  /\ memo = NoMemo

Indices == 0..(BoardSize - 1)

WithinBound == \A m \in Marks : scores'[m] <= MaxScore

\* No scripted caller at work, and none of the callers' history changes.
FreePlay == script.phase = "idle" /\ UNCHANGED <<strayCalls, script, memo>>

\* The squares rendered by the component call the handler with 0..8.
Click ==
  /\ \E i \in Indices : handleSquareClick(i)
  /\ WithinBound
  /\ FreePlay

ResetBoard == resetBoard /\ FreePlay

ResetAll == resetAll /\ FreePlay

ToggleTheme == toggleTheme /\ FreePlay

Next == Click \/ ResetBoard \/ ResetAll \/ ToggleTheme

Spec == Init /\ [][Next]_vars

\* The handler is a plain function of a number: a caller other than the
\* rendered squares can pass an index outside 0..8.
StrayIndices == {-1, BoardSize}

StrayClick ==
  /\ strayCalls < MaxOutOfRange
  /\ script.phase = "idle"
  /\ \E i \in StrayIndices : handleSquareClick(i)
  /\ WithinBound
  /\ strayCalls' = strayCalls + 1
  /\ UNCHANGED <<script, memo>>

NextAny == Next \/ StrayClick

SpecAny == Init /\ [][NextAny]_vars

\* A caller that, right after a reset, clicks the squares of a fixed list in
\* order, one click per event, with nothing else in between.
DrawScript == <<0, 1, 2, 3, 4, 5, 6, 8, 7>>

StartScript ==
  /\ script.phase = "idle"
  /\ op.name \in {"mount", "resetBoard", "resetAll"}
  /\ script' = [todo |-> DrawScript, phase |-> "running", from |-> scores,
                cells |-> DrawScript, mark |-> "X"]
  /\ UNCHANGED <<board, xIsNext, scores, theme, effectDeps, op, moveNo, strayCalls, memo>>

ScriptedClick ==
  /\ script.phase = "running"
  /\ script.todo # <<>>
  /\ handleSquareClick(Head(script.todo))
  /\ WithinBound
  /\ script' = [script EXCEPT !.todo = Tail(script.todo)]
  /\ UNCHANGED <<strayCalls, memo>>

ScriptDone == script.phase = "running" /\ script.todo = <<>>

LeaveScript ==
  /\ ScriptDone
  /\ script' = NoScript
  /\ UNCHANGED <<board, xIsNext, scores, theme, effectDeps, op, moveNo, strayCalls, memo>>

NextScript == Next \/ StartScript \/ ScriptedClick \/ LeaveScript

SpecScript == Init /\ [][NextScript]_vars

\* A caller that clicks two distinct empty squares of a round in progress,
\* one after the other, with nothing else in between.  It starts in the
\* first round of a session, at the start or directly after a move: every
\* board and turn of a round in progress occurs there.
StartPair ==
  /\ script.phase = "idle"
  /\ scores = [X |-> 0, O |-> 0]
  /\ theme = "light"
  /\ op \in {Call("mount", FALSE), Call("handleSquareClick", FALSE)}
  /\ ~Truthy(winner) /\ ~isDraw
  /\ \E i \in Indices : \E j \in Indices \ {i} :
       /\ Get(board, i) = null
       /\ Get(board, j) = null
       /\ script' = [todo |-> <<i, j>>, phase |-> "running", from |-> scores,
                     cells |-> <<i, j>>, mark |-> IF xIsNext THEN "X" ELSE "O"]
  /\ UNCHANGED <<board, xIsNext, scores, theme, effectDeps, op, moveNo, strayCalls, memo>>

NextPair == Next \/ StartPair \/ ScriptedClick \/ LeaveScript

SpecPair == Init /\ [][NextPair]_vars

\* Rounds played to their end: a click is made on some square, empty or
\* not, and a reset button is pressed only once the round is decided
\* (Reset Game only while a further win keeps the scores within MaxScore).
\* A player keeps clicking an empty square while a round is in progress.
Move == Click /\ board' # board

ResetDecided ==
  /\ Truthy(winner) \/ isDraw
  /\ \/ ResetAll
     \/ ResetBoard /\ scores.X + scores.O < MaxScore

NextRound == Click \/ ResetDecided

SpecRound == Init /\ [][NextRound]_vars /\ WF_vars(Move)

\* The winner computation as a function of the board alone: any board of
\* nine cells over Empty, X, O is handed to it once.
AllBoards ==
  {[length |-> BoardSize, elems |-> f] : f \in [Indices -> Marks \cup {null}]}

InitBoards ==
  /\ board = ArrayFill(BoardSize, null)
  /\ xIsNext = TRUE
  /\ scores = [X |-> 0, O |-> 0]
  /\ theme = "light"
  /\ effectDeps = null
  /\ op = Call("mount", FALSE)
  /\ moveNo = 0
  /\ strayCalls = 0
  /\ script = NoScript
  /\ memo \in {[NoMemo EXCEPT !.input = b] : b \in AllBoards}

EvaluateMemo ==
  /\ ~memo.done
  /\ memo' = [memo EXCEPT
                !.done = TRUE,
                !.out = [winner  |-> computeWinner(memo.input).winner,
                         line    |-> computeWinner(memo.input).line,
                         outcome |-> outcomeOf(memo.input)]]
  /\ UNCHANGED <<board, xIsNext, scores, theme, effectDeps, op, moveNo, strayCalls, script>>

NextBoards == EvaluateMemo

SpecBoards == InitBoards /\ [][NextBoards]_vars

-----------------------------------------------------------------------------
(* Vocabulary of the properties *)

Game == <<board, xIsNext, scores>>

Occupied(i) == Get(board, i) \in Marks

TurnMark == IF xIsNext THEN "X" ELSE "O"

\* The board of a reset: exactly the cells 0..8, all empty.
IsEmptyBoard(b) ==
  /\ b.length = BoardSize
  /\ DOMAIN b.elems = Indices
  /\ \A i \in Indices : b.elems[i] = null

\* The winning lines of the row-major 3x3 grid, from its geometry.
GridLines ==
  {<<3 * r, 3 * r + 1, 3 * r + 2>> : r \in 0..2}
    \cup {<<c, c + 3, c + 6>> : c \in 0..2}
    \cup {<<0, 4, 8>>, <<2, 4, 6>>}

\* Place of a grid line in the order rows, columns, diagonals.
GridPos(l) ==
  IF l[2] - l[1] = 1 THEN l[1] \div 3
  ELSE IF l[2] - l[1] = 3 THEN 3 + l[1]
  ELSE IF l[1] = 0 THEN 6 ELSE 7

Holds(b, l, m) == \A p \in 1..3 : Get(b, l[p]) = m

SomeLineHeld(b) == \E l \in GridLines : \E m \in Marks : Holds(b, l, m)

AllOccupied(b) == \A i \in Indices : Get(b, i) \in Marks

IsReset(name) == name \in {"resetBoard", "resetAll"}

-----------------------------------------------------------------------------
(* Properties *)

\* C1: a click on a cell that already holds X or O, or on any cell once the
\* outcome is Won or Draw, changes none of board, turn and scores.
\* (Stated from the other end: a click that changes any of the three was
\* made in a round in progress and was not a click on an occupied cell.)
C1_RejectedMoveIsNoOp ==
  [][(op'.name = "handleSquareClick" /\ Game' # Game) =>
       /\ outcome = "InProgress"
       /\ \A i \in Indices : Occupied(i) => ~handleSquareClick(i)]_vars

\* An ignored click on an occupied cell of a round still in progress.
C1_Witness ==
  /\ op = Call("handleSquareClick", TRUE)
  /\ outcome = "InProgress"
  /\ moveNo >= 1

\* C2: counted from the last reset (or from the start), the n-th accepted
\* move is made with turn X iff n is even, and flips the turn; an ignored
\* click leaves the turn as it is.
C2_StrictAlternation ==
  [][op'.name = "handleSquareClick" =>
       IF op'.ignored
         THEN xIsNext' = xIsNext /\ moveNo' = moveNo
         ELSE /\ xIsNext <=> (moveNo % 2 = 0)
              /\ xIsNext' = ~xIsNext
              /\ moveNo' = moveNo + 1
              /\ \E i \in Indices :
                   Get(board, i) = null /\ Get(board', i) = TurnMark]_vars

\* Three moves accepted, then a click ignored: still O's turn.
C2_Witness ==
  /\ op = Call("handleSquareClick", TRUE)
  /\ moveNo = 3
  /\ ~xIsNext

\* C3: the step that takes the outcome from InProgress to Won adds exactly 1
\* to the winner's score and nothing to the other's; from a Won state no
\* step other than a reset (a further click, a render that evaluates winner
\* and statusMessage again) changes the scores.
C3_ScoreExactlyOnce ==
  [][/\ (board' # board /\ outcome = "InProgress" /\ outcome' = "Won")
          => scores' = [scores EXCEPT ![winner'] = @ + 1]
     /\ (scores' # scores /\ ~IsReset(op'.name)) => outcome # "Won"]_vars

\* X has won the first round on the top row by 0,3,1,4,2 and the component
\* was rendered again afterwards: the score is 1 - 0.
C3_Witness ==
  /\ \A i \in Indices :
       Get(board, i) = (IF i \in {0, 1, 2} THEN "X"
                        ELSE IF i \in {3, 4} THEN "O" ELSE null)
  /\ winner = "X"
  /\ line = <<0, 1, 2>>
  /\ statusMessage = <<"Winner: ", "X">>
  /\ scores = [X |-> 1, O |-> 0]
  /\ op.name = "toggleTheme"

\* C4: an accepted click on i (i in 0..8 empty, outcome InProgress) puts the
\* mark of the current turn on i, flips the turn and leaves the other eight
\* cells and the length of the board as they were.
C4_AcceptedMoveEffect ==
  [][(op'.name = "handleSquareClick" /\ outcome = "InProgress") =>
       \A i \in Indices :
         (Get(board, i) = null /\ handleSquareClick(i))
           => /\ Get(board', i) = TurnMark
              /\ xIsNext' = ~xIsNext
              /\ \A j \in Indices \ {i} : Get(board', j) = Get(board, j)
              /\ board'.length = BoardSize
              /\ DOMAIN board'.elems = Indices]_vars

\* An accepted move by O: the second move of a round.
C4_Witness ==
  /\ op = Call("handleSquareClick", FALSE)
  /\ moveNo = 2
  /\ xIsNext
  /\ \E i \in Indices : Get(board, i) = "O"

\* C5: resetBoard leaves an empty board of 9 cells and turn X, and the
\* scores exactly as they were.
C5_ResetRound ==
  [][op'.name = "resetBoard" =>
       /\ IsEmptyBoard(board')
       /\ xIsNext' = TRUE
       /\ scores' = scores]_vars

\* resetBoard has run with both players having won a round.
C5_Witness ==
  /\ op.name = "resetBoard"
  /\ scores = [X |-> 1, O |-> 1]
  /\ IsEmptyBoard(board)

\* C6: the state resetAll leaves is the initial one: empty board of 9
\* cells, turn X, scores 0 - 0.
C6_ResetAllIsInitial ==
  op.name = "resetAll" =>
    /\ IsEmptyBoard(board)
    /\ xIsNext = TRUE
    /\ scores = [X |-> 0, O |-> 0]
    /\ outcome = "InProgress"

\* resetAll has run in a session that was under way (the theme had been
\* switched).
C6_Witness ==
  /\ op.name = "resetAll"
  /\ theme = "dark"
  /\ scores = [X |-> 0, O |-> 0]

\* C7, as stated: whenever the three cells of a grid line L all hold m, the
\* winner is m and the reported line is L itself.
C7_AsStated ==
  \A l \in GridLines : \A m \in Marks :
    Holds(board, l, m) => (winner = m /\ line = l)

\* C7, amended: whenever the three cells of a grid line L all hold m, the
\* winner is m and the reported line is the first grid line, in the order
\* rows, columns, diagonals, that m holds; it is L when L is the only one.
C7_WinDetection ==
  \A l \in GridLines : \A m \in Marks :
    Holds(board, l, m) =>
      /\ winner = m
      /\ line \in GridLines
      /\ Holds(board, line, m)
      /\ \A k \in GridLines : Holds(board, k, m) => GridPos(line) <= GridPos(k)

\* One move has completed two lines at once.
C7_Witness ==
  \E l \in GridLines : \E k \in GridLines \ {l} :
    Holds(board, l, "X") /\ Holds(board, k, "X") /\ line = l

\* C8, as stated: after the clicks 0,1,2,3,4,5,6,8,7 from a reset state the
\* board is full with no line held, the outcome is Draw, the status reads
\* "It's a draw" and the scores are those of the start.
C8_AsStated ==
  ScriptDone =>
    /\ AllOccupied(board)
    /\ ~SomeLineHeld(board)
    /\ outcome = "Draw"
    /\ statusMessage = <<"It's a draw">>
    /\ scores = script.from

\* C8, amended: after the clicks 0,1,2,3,4,5,6,8,7 from a reset state, X
\* (on 0,2,4,6) has won on the line 2,4,6 with the seventh click, the clicks
\* on 8 and 7 were ignored so those cells are empty, the status reads
\* "Winner: X" and X's score is one more than at the start.
C8_ScriptedRound ==
  ScriptDone =>
    /\ \A i \in Indices :
         Get(board, i) = (IF i \in {0, 2, 4, 6} THEN "X"
                          ELSE IF i \in {1, 3, 5} THEN "O" ELSE null)
    /\ outcome = "Won"
    /\ winner = "X"
    /\ line = <<2, 4, 6>>
    /\ statusMessage = <<"Winner: ", "X">>
    /\ scores = [script.from EXCEPT !.X = @ + 1]
    /\ op = Call("handleSquareClick", TRUE)
    /\ moveNo = 7

\* The scripted round has been played to its end after O had won a round.
C8_Witness ==
  /\ ScriptDone
  /\ script.from = [X |-> 0, O |-> 1]

\* C9: isDraw, and with it the outcome Draw, holds exactly when all nine
\* cells are occupied and no grid line holds three equal marks; a full board
\* with such a line is Won.
C9_DrawDetection ==
  /\ isDraw <=> (AllOccupied(board) /\ ~SomeLineHeld(board))
  /\ (outcome = "Draw") <=> (AllOccupied(board) /\ ~SomeLineHeld(board))
  /\ (AllOccupied(board) /\ SomeLineHeld(board)) => outcome = "Won"
  /\ statusMessage = <<"It's a draw">> <=> isDraw

\* A round has ended in a draw.
C9_Witness ==
  /\ AllOccupied(board)
  /\ isDraw
  /\ op = Call("handleSquareClick", FALSE)

\* C10, as stated: a click with an index outside 0..8 changes none of board
\* (its length of 9 included), turn and scores.
C10_AsStated ==
  [][\A i \in StrayIndices : handleSquareClick(i) => UNCHANGED Game]_vars

\* The grid lines whose three cells hold the same mark.
HeldLines(b) == {l \in GridLines : \E m \in Marks : Holds(b, l, m)}

CellsOf(l) == {l[1], l[2], l[3]}

CountOf(b, m) == Cardinality({i \in Indices : Get(b, i) = m})

\* The board has exactly the cells 0..8, each Empty, X or O.
WellShaped(b) ==
  /\ b.length = BoardSize
  /\ DOMAIN b.elems = Indices
  /\ \A i \in Indices : b.elems[i] \in Marks \cup {null}

\* C11, as stated: at most one grid line has its three cells non-empty and
\* identical.
C11_AsStated == Cardinality(HeldLines(board)) <= 1

\* C11, amended: at most two grid lines are held; two held lines hold the
\* same mark and cross in exactly one cell (the cell of the winning move),
\* and the reported line is then the earlier of the two in the order rows,
\* columns, diagonals, so the order does decide which line is reported.
C11_AtMostTwoLines ==
  /\ Cardinality(HeldLines(board)) <= 2
  /\ \A l \in HeldLines(board) : \A k \in HeldLines(board) :
       l # k =>
         /\ Get(board, l[1]) = Get(board, k[1])
         /\ Cardinality(CellsOf(l) \cap CellsOf(k)) = 1
  /\ \A l \in HeldLines(board) :
       line \in HeldLines(board) /\ GridPos(line) <= GridPos(l)

\* Two lines are held, and the one reported is not the later one.
C11_Witness ==
  \E l \in HeldLines(board) : \E k \in HeldLines(board) :
    GridPos(l) < GridPos(k) /\ line = l /\ winner = "X" /\ moveNo = 9

\* C12: the board always has exactly 9 cells, each Empty, X or O; a click
\* never changes a cell that holds X or O, and a cell that held a mark is
\* Empty afterwards only if the step was resetBoard or resetAll.
C12_BoardShapeAndMonotone ==
  [][/\ WellShaped(board) /\ WellShaped(board')
     /\ (board' # board /\ ~IsReset(op'.name)) =>
          \A i \in Indices : Occupied(i) => Get(board', i) = Get(board, i)]_vars

\* A reset has emptied a board that was full.
C12_Witness ==
  /\ IsReset(op.name)
  /\ IsEmptyBoard(board)
  /\ scores = [X |-> 1, O |-> 0]
  /\ theme = "dark"

\* C13: the scores start at 0 - 0 and are natural numbers; a step changes
\* them only by resetAll (to 0 - 0) or by the click that wins a round (the
\* winner's entry plus 1), so no click and no resetBoard lowers an entry,
\* and the click that ends a round in a draw changes none.
C13_ScoreLifecycle ==
  /\ scores = [X |-> 0, O |-> 0]
  /\ [][/\ \A m \in Marks : scores'[m] \in Nat
        /\ scores' # scores =>
             \/ op'.name = "resetAll" /\ scores' = [X |-> 0, O |-> 0]
             \/ /\ op' = Call("handleSquareClick", FALSE)
                /\ outcome = "InProgress"
                /\ outcome' = "Won"
                /\ scores' = [scores EXCEPT ![winner'] = @ + 1]
        /\ (board' # board /\ outcome' = "Draw") => scores' = scores]_vars

\* A round has just ended in a draw after X had won one.
C13_Witness ==
  /\ isDraw
  /\ op = Call("handleSquareClick", FALSE)
  /\ scores = [X |-> 1, O |-> 0]

\* C14: the status reads "Winner: m" exactly when m holds a grid line,
\* "It's a draw" exactly when the board is full with no line held, and
\* "Turn: t" with t the current turn otherwise; it reads "Turn: X" at the
\* start and right after resetBoard and resetAll.
C14_StatusText ==
  /\ \A m \in Marks :
       (statusMessage = <<"Winner: ", m>>)
         <=> (\E l \in GridLines : Holds(board, l, m))
  /\ (statusMessage = <<"It's a draw">>)
       <=> (AllOccupied(board) /\ ~SomeLineHeld(board))
  /\ (~SomeLineHeld(board) /\ ~AllOccupied(board))
       => statusMessage = <<"Turn: ", TurnMark>>
  /\ (op.name = "mount" \/ IsReset(op.name))
       => statusMessage = <<"Turn: ", "X">>

\* It is O's turn in a round in progress.
C14_Witness ==
  /\ statusMessage = <<"Turn: ", "O">>
  /\ moveNo = 3

\* C19: the number of X cells minus the number of O cells is 0 or 1, and it
\* is X's turn exactly when the two numbers are equal.
C19_MarkCount ==
  /\ CountOf(board, "X") - CountOf(board, "O") \in {0, 1}
  /\ xIsNext <=> (CountOf(board, "X") = CountOf(board, "O"))

\* X has moved once more than O in a second round.
C19_Witness ==
  /\ CountOf(board, "X") = 3
  /\ CountOf(board, "O") = 2
  /\ ~xIsNext
  /\ scores = [X |-> 0, O |-> 1]

\* C20: X and O never both hold a grid line; when the round is won, the
\* winner is the mark of the last accepted move (the turn is the other
\* mark's) and the other mark holds no line.
C20_UniqueWinner ==
  /\ ~(\E l \in GridLines : \E k \in GridLines :
         Holds(board, l, "X") /\ Holds(board, k, "O"))
  /\ outcome = "Won" =>
       /\ winner \in Marks
       /\ winner # TurnMark
       /\ ~(\E l \in GridLines : Holds(board, l, TurnMark))

\* O has won a round with its third mark.
C20_Witness ==
  /\ winner = "O"
  /\ xIsNext
  /\ moveNo = 6
  /\ op = Call("handleSquareClick", FALSE)

\* C15: for every board of nine cells over Empty, X, O the computation
\* returns Won with the first grid line, in the order rows, columns,
\* diagonals, whose three cells are non-empty and identical, and with the
\* mark on that line; with no such line it returns no winner and no line,
\* and the outcome is InProgress when some cell is Empty (Draw when none).
C15_FirstLineWins ==
  memo.done =>
    LET b    == memo.input
        held == HeldLines(b)
    IN  IF held = {}
          THEN /\ memo.out.winner = null
               /\ memo.out.line = <<>>
               /\ memo.out.outcome =
                    (IF AllOccupied(b) THEN "Draw" ELSE "InProgress")
          ELSE /\ memo.out.outcome = "Won"
               /\ memo.out.line \in held
               /\ \A k \in held : GridPos(memo.out.line) <= GridPos(k)
               /\ memo.out.winner \in Marks
               /\ Holds(b, memo.out.line, memo.out.winner)

\* A board on which O holds the top row and X the bottom row: O's line is
\* the first.
C15_Witness ==
  /\ memo.done
  /\ Holds(memo.input, <<0, 1, 2>>, "O")
  /\ Holds(memo.input, <<6, 7, 8>>, "X")
  /\ memo.out.winner = "O"
  /\ memo.out.line = <<0, 1, 2>>

OtherMark(m) == IF m = "X" THEN "O" ELSE "X"

\* The two clicks of a pair have both been handled.
PairDone == ScriptDone /\ Len(script.cells) = 2

\* C17, as stated: after two clicks, one after the other, on two distinct
\* empty cells of a round in progress, both cells are marked, with opposite
\* marks.
C17_AsStated ==
  PairDone =>
    /\ Get(board, script.cells[1]) = script.mark
    /\ Get(board, script.cells[2]) = OtherMark(script.mark)

\* C17, amended: the mark of the first click is on its cell when the second
\* click is handled and afterwards; the second click is decided on the
\* board and turn the first one produced: it puts the other mark on its
\* cell and the turn is back where it started, unless the first click
\* completed a line, in which case the round is won by the first mark and
\* the second click is ignored.
C17_SecondClickSeesFirst ==
  /\ (script.phase = "running" /\ Len(script.cells) = 2 /\ Len(script.todo) = 1)
       => /\ Get(board, script.cells[1]) = script.mark
          /\ TurnMark = OtherMark(script.mark)
  /\ PairDone =>
       LET i == script.cells[1]
           j == script.cells[2]
           m == script.mark
           firstWon == \E l \in GridLines : i \in CellsOf(l) /\ Holds(board, l, m)
       IN  /\ Get(board, i) = m
           /\ IF firstWon
                THEN /\ Get(board, j) = null
                     /\ winner = m
                     /\ TurnMark = OtherMark(m)
                     /\ op = Call("handleSquareClick", TRUE)
                ELSE /\ Get(board, j) = OtherMark(m)
                     /\ TurnMark = m
                     /\ op = Call("handleSquareClick", FALSE)

\* Both clicks of a pair made in mid-round have taken effect.
C17_Witness ==
  /\ PairDone
  /\ moveNo = 5
  /\ script.mark = "O"
  /\ Get(board, script.cells[1]) = "O"
  /\ Get(board, script.cells[2]) = "X"

====
